---- MODULE Spec2Model ----
(***************************************************************************)
(* Model of the nomrs chunk codec: ChunkReader, ChunkWriter and the        *)
(* IntoNoms / FromNoms conversions (src/chunk/mod.rs,                      *)
(* src/value/conversion.rs).                                               *)
(*                                                                         *)
(* A chunk is a sequence of bytes (0..255).  A reader is a chunk plus a    *)
(* cursor.  Every reader operation is a pure operator on (bytes, offset)   *)
(* that returns a record                                                   *)
(*     [st |-> "ok" | "panic", off |-> cursor afterwards,                  *)
(*      v |-> the value returned, ub |-> undefined behaviour was hit]      *)
(* A Rust panic (slice out of range, unwrap of Err, assert_eq!,            *)
(* unimplemented!) is st = "panic".  The code has no Result types: there   *)
(* is no other way for an operation to fail.                               *)
(***************************************************************************)
EXTENDS Integers, Sequences, FiniteSets, TLC

VARIABLES pc, chunk, offset, prov, w, wlog, res

vars == <<pc, chunk, offset, prov, w, wlog, res>>

-----------------------------------------------------------------------------
(* Bounds of the model *)

\* longest string enumerated over StrAlphabet
MaxStrLen == 2
\* largest n tried for extract_raw(n)
MaxRaw == 2

-----------------------------------------------------------------------------
(* Bytes, hashes, kinds *)

\* hash::BYTE_LEN
BYTE_LEN == 20

\* value::Kind, in declaration order; `kind as u8` is the position, from 0
Kinds == << "Boolean", "Number", "String", "Blob", "Value", "List", "Map",
            "Ref", "Set", "Struct", "Cycle", "Type", "Parent", "Union" >>

KindNames == { Kinds[i] : i \in 1..Len(Kinds) }

\* `kind as u8`
KindCode(k) == (CHOOSE i \in 1..Len(Kinds) : Kinds[i] = k) - 1

KindCodes == 0..(Len(Kinds) - 1)

\* what transmute::<u8, Kind> can yield for a byte that is no discriminant:
\* undefined behaviour, so any Kind or a value that matches no variant
UBKinds == KindNames \cup {"Invalid"}

\* u8 / u16 truncating casts: `x as u8`, `x as u16`
AsU8(n) == n % 256
AsU16(n) == n % 65536

\* Rust slice b[a..e] (0-based, e exclusive); the caller checks the range
Slice(b, a, e) == SubSeq(b, a + 1, e)

\* does b[a..e] panic?
SliceOk(b, a, e) == a <= e /\ e <= Len(b)

\* A u32 is kept as its two 16-bit halves << high, low >>, so that every
\* value of the type has a representation.
U32Of(n) == << n \div 65536, n % 65536 >>

\* the `for _ in 0..n` loops stop at zero and count down by one
U32Dec(n) == IF n[2] > 0 THEN << n[1], n[2] - 1 >> ELSE << n[1] - 1, 65535 >>

\* NetworkEndian::read_u32 on the first four bytes of b[o..]
read_u32(b, o) ==
    << b[o + 1] * 256 + b[o + 2], b[o + 3] * 256 + b[o + 4] >>

\* NetworkEndian::write_u16 / write_u32
be_u16(v) == << (v \div 256) % 256, v % 256 >>
be_u32(v) == be_u16(v[1]) \o be_u16(v[2])

Rep(n, c) == [i \in 1..n |-> c]

IsCont(c) == c >= 128 /\ c <= 191

\* number of bytes of the UTF-8 sequence a lead byte opens, 0 for no lead
Utf8Width(c) ==
    IF c < 128 THEN 1
    ELSE IF c >= 194 /\ c <= 223 THEN 2
    ELSE IF c >= 224 /\ c <= 239 THEN 3
    ELSE IF c >= 240 /\ c <= 244 THEN 4
    ELSE 0

\* the byte after lead byte c is in the range that lead allows
Utf8Second(c, c1) ==
    /\ IsCont(c1)
    /\ (c = 224 => c1 >= 160)
    /\ (c = 237 => c1 <= 159)
    /\ (c = 240 => c1 >= 144)
    /\ (c = 244 => c1 <= 143)

\* String::from_utf8(b).is_ok(): every byte is a lead byte followed by the
\* continuation bytes it needs, or a continuation byte of such a lead
IsUtf8(b) ==
    \A i \in 1..Len(b) :
        IF IsCont(b[i])
        THEN \E k \in 1..3 :
                /\ i - k >= 1
                /\ Utf8Width(b[i - k]) > k
                /\ \A j \in (i - k + 1)..(i - 1) : IsCont(b[j])
        ELSE /\ Utf8Width(b[i]) > 0
             /\ i + Utf8Width(b[i]) - 1 <= Len(b)
             /\ \A j \in (i + 1)..(i + Utf8Width(b[i]) - 1) : IsCont(b[j])
             /\ Utf8Width(b[i]) > 1 => Utf8Second(b[i], b[i + 1])

-----------------------------------------------------------------------------
(* Results of reader operations *)

NoVal == <<>>

Ok(o, v, ub) == [st |-> "ok", off |-> o, v |-> v, ub |-> ub]
Panic(o, ub) == [st |-> "panic", off |-> o, v |-> NoVal, ub |-> ub]

-----------------------------------------------------------------------------
(* ChunkReader *)

extract_hash(b, o) ==
    IF ~SliceOk(b, o, o + BYTE_LEN) THEN Panic(o, FALSE)
    ELSE Ok(o + BYTE_LEN, Slice(b, o, o + BYTE_LEN), FALSE)

extract_u8(b, o) ==
    IF o >= Len(b) THEN Panic(o, FALSE)
    ELSE Ok(o + 1, b[o + 1], FALSE)

extract_u16(b, o) ==
    IF ~SliceOk(b, o, o + 8) THEN Panic(o, FALSE)
    ELSE Ok(o + 8, read_u32(b, o), FALSE)

extract_u32(b, o) ==
    IF ~SliceOk(b, o, o + 4) THEN Panic(o, FALSE)
    ELSE Ok(o + 4, read_u32(b, o), FALSE)

extract_raw(b, o, len) ==
    IF ~SliceOk(b, o, o + len) THEN Panic(o, FALSE)
    ELSE Ok(o + len, Slice(b, o, o + len), FALSE)

\* transmute(self.extract_u8()); u is what undefined behaviour yields
extract_kind(b, o, u) ==
    LET r == extract_u8(b, o)
    IN  IF r.st = "panic" THEN r
        ELSE IF r.v \in KindCodes THEN Ok(r.off, Kinds[r.v + 1], FALSE)
        ELSE Ok(r.off, u, TRUE)

extract_raw_string(b, o) ==
    LET l == extract_u8(b, o)
    IN  IF l.st = "panic" THEN l
        ELSE IF ~SliceOk(b, l.off, l.off + l.v) THEN Panic(l.off, FALSE)
        ELSE IF ~IsUtf8(Slice(b, l.off, l.off + l.v)) THEN Panic(l.off, FALSE)
        ELSE Ok(l.off + l.v, Slice(b, l.off, l.off + l.v), FALSE)

extract_string(b, o, u) ==
    LET k == extract_kind(b, o, u)
    IN  IF k.st = "panic" THEN k
        ELSE IF k.v # "String" THEN Panic(k.off, k.ub)
        ELSE LET s == extract_raw_string(b, k.off)
             IN  [s EXCEPT !.ub = k.ub]

extract_ref(b, o, u) ==
    LET k == extract_kind(b, o, u)
    IN  IF k.st = "panic" THEN k
        ELSE IF k.v # "Ref" THEN Panic(k.off, k.ub)
        ELSE LET h == extract_hash(b, k.off)
             IN  [h EXCEPT !.ub = k.ub]

\* HashMap::insert: a later insert of an equal key replaces the value
MapInsert(m, k, v) ==
    [x \in (DOMAIN m) \cup {k} |-> IF x = k THEN v ELSE m[x]]

\* T::from_noms(&Value(c)) for the element types the code is used with.
\* Chunk: v.0.clone().  String: v.0.reader().extract_string().
\* Value (extract_chunk's extract_set::<Value>): the wrapped chunk.
FromNoms(T, c, u) ==
    IF T = "String" THEN extract_string(c, 0, u)
    ELSE Ok(0, c, FALSE)

\* extract_chunk, extract_struct, extract_set and extract_map call one
\* another: they are the arms of one recursive operator, Walk(what, ...), one
\* arm per function and one per `for` loop.  n, T, acc and ub are the state
\* of the loops: iterations left, element type(s), the container built so
\* far, undefined behaviour met so far.
RECURSIVE Walk(_, _, _, _, _, _, _, _)
Walk(what, b, o, u, n, T, acc, ub) ==
    CASE what = "extract_chunk" ->
        LET k == extract_kind(b, o, u)
            \* the slice end each arm of the match computes, or a panic
            e == IF k.v = "Ref" THEN Ok(k.off + BYTE_LEN, NoVal, k.ub)
                 ELSE IF k.v = "String"
                      THEN LET len == extract_u8(b, k.off)
                           IN  IF len.st = "panic" THEN Panic(len.off, k.ub)
                               ELSE Ok(len.off + len.v, NoVal, k.ub)
                 ELSE IF k.v = "Struct"
                      THEN Walk("extract_struct", b, o, u, U32Of(0), "", <<>>, FALSE)
                 ELSE IF k.v = "Set"
                      THEN Walk("extract_set", b, o, u, U32Of(0), "Value", <<>>, FALSE)
                 ELSE Panic(k.off, k.ub)
        IN  IF k.st = "panic" THEN k
            ELSE IF e.st = "panic" THEN Panic(e.off, e.ub \/ k.ub)
            ELSE IF ~SliceOk(b, o, e.off) THEN Panic(e.off, e.ub \/ k.ub)
            ELSE Ok(o + Len(Slice(b, o, e.off)), Slice(b, o, e.off),
                    e.ub \/ k.ub)
    [] what = "extract_struct" ->
        LET k == extract_kind(b, o, u)
            len == extract_u8(b, k.off)
            raw == extract_raw(b, len.off, len.v)
            prop_count == extract_u8(b, raw.off)
            props == Walk("extract_struct.for", b, prop_count.off, u,
                          U32Of(prop_count.v), "", <<>>, k.ub)
        IN  IF k.st = "panic" THEN k
            ELSE IF k.v # "Struct" THEN Panic(k.off, k.ub)
            ELSE IF len.st = "panic" THEN Panic(len.off, k.ub)
            ELSE IF raw.st = "panic" \/ ~IsUtf8(raw.v) THEN Panic(raw.off, k.ub)
            ELSE IF prop_count.st = "panic" THEN Panic(prop_count.off, k.ub)
            ELSE IF props.st = "panic" THEN props
            ELSE Ok(props.off, [name |-> raw.v, props |-> props.v], props.ub)
    [] what = "extract_struct.for" ->
        \* the `for _ in 0..prop_count` loop of extract_struct
        LET key == extract_raw_string(b, o)
            value == Walk("extract_chunk", b, key.off, u, U32Of(0), "", <<>>, FALSE)
        IN  IF n = U32Of(0) THEN Ok(o, acc, ub)
            ELSE IF key.st = "panic" THEN Panic(key.off, ub)
            ELSE IF value.st = "panic" THEN Panic(value.off, ub \/ value.ub)
            ELSE Walk("extract_struct.for", b, value.off, u, U32Dec(n), "",
                      MapInsert(acc, key.v, value.v), ub \/ value.ub)
    [] what = "extract_set" ->
        LET k == extract_kind(b, o, u)
            len == extract_u16(b, k.off)
        IN  IF k.st = "panic" THEN k
            ELSE IF k.v # "Set" THEN Panic(k.off, k.ub)
            ELSE IF len.st = "panic" THEN Panic(len.off, k.ub)
            ELSE Walk("extract_set.for", b, len.off, u, len.v, T, {}, k.ub)
    [] what = "extract_set.for" ->
        \* the `for _ in 0..len` loop of extract_set
        LET c == Walk("extract_chunk", b, o, u, U32Of(0), "", <<>>, FALSE)
            e == FromNoms(T, c.v, u)
        IN  IF n = U32Of(0) THEN Ok(o, acc, ub)
            ELSE IF c.st = "panic" THEN Panic(c.off, ub \/ c.ub)
            ELSE IF e.st = "panic" THEN Panic(c.off, ub \/ c.ub \/ e.ub)
            ELSE Walk("extract_set.for", b, c.off, u, U32Dec(n), T,
                      acc \cup {e.v}, ub \/ c.ub \/ e.ub)

    [] what = "extract_map" ->
        LET k == extract_kind(b, o, u)
            entries == extract_u16(b, k.off)
        IN  IF k.st = "panic" THEN k
            ELSE IF k.v # "Map" THEN Panic(k.off, k.ub)
            ELSE IF entries.st = "panic" THEN Panic(entries.off, k.ub)
            ELSE Walk("extract_map.for", b, entries.off, u, entries.v, T,
                      <<>>, k.ub)
    [] what = "extract_map.for" ->
        \* the `for _ in 0..entries` loop of extract_map; T is << K, V >>
        LET key == Walk("extract_chunk", b, o, u, U32Of(0), "", <<>>, FALSE)
            value == Walk("extract_chunk", b, key.off, u, U32Of(0), "", <<>>,
                          FALSE)
            kk == FromNoms(T[1], key.v, u)
            vv == FromNoms(T[2], value.v, u)
            ub2 == ub \/ key.ub \/ value.ub \/ kk.ub \/ vv.ub
        IN  IF n = U32Of(0) THEN Ok(o, acc, ub)
            ELSE IF key.st = "panic" THEN Panic(key.off, ub \/ key.ub)
            ELSE IF value.st = "panic"
                 THEN Panic(value.off, ub \/ key.ub \/ value.ub)
            ELSE IF kk.st = "panic" \/ vv.st = "panic"
                 THEN Panic(value.off, ub2)
            ELSE Walk("extract_map.for", b, value.off, u, U32Dec(n), T,
                      MapInsert(acc, kk.v, vv.v), ub2)

extract_chunk(b, o, u) ==
    Walk("extract_chunk", b, o, u, U32Of(0), "", <<>>, FALSE)

extract_struct(b, o, u) ==
    Walk("extract_struct", b, o, u, U32Of(0), "", <<>>, FALSE)

extract_set(b, o, u, T) ==
    Walk("extract_set", b, o, u, U32Of(0), T, <<>>, FALSE)

extract_map(b, o, u, TK, TV) ==
    Walk("extract_map", b, o, u, U32Of(0), << TK, TV >>, <<>>, FALSE)

\* ChunkReader::empty
empty(b, o) == o >= Len(b)

-----------------------------------------------------------------------------
(* ChunkWriter: the writer is its buffer *)

write_bytes(buf, bytes) == buf \o bytes

write_u8(buf, v) == write_bytes(buf, << v >>)

write_u16(buf, v) == write_bytes(buf, be_u16(v))

write_u32(buf, v) == write_bytes(buf, be_u32(v))

\* a Hash is its BYTE_LEN raw bytes
write_hash(buf, hash) == write_bytes(buf, hash)

write_kind(buf, kind) == write_u8(buf, KindCode(kind))

\* a Ref is its hash
write_ref(buf, r) == write_hash(write_kind(buf, "Ref"), r)

\* Value::into_raw is the bytes of the wrapped chunk
write_value(buf, value) == write_bytes(buf, value)

\* write_string with the length written two bytes wide
write_string_len16(buf, string) ==
    write_bytes(write_u16(write_kind(buf, "String"), AsU16(Len(string))), string)

write_string(buf, string) ==
    write_bytes(write_u8(write_kind(buf, "String"), AsU8(Len(string))), string)

finish(buf) == buf

\* impl IntoNoms for String
String_into_noms(s) == finish(write_string(<<>>, s))

\* impl FromNoms for String
String_from_noms(v, u) == extract_string(v, 0, u)

\* the `for (k, v) in map` loop of write_map; order is the sequence of keys
\* in which this HashMap instance happens to iterate
RECURSIVE write_map_entries(_, _, _, _)
write_map_entries(buf, map, order, i) ==
    IF i > Len(order) THEN buf
    ELSE write_map_entries(
             write_value(write_value(buf, String_into_noms(order[i])),
                         String_into_noms(map[order[i]])),
             map, order, i + 1)

write_map(buf, map, order) ==
    write_map_entries(
        write_u16(write_kind(buf, "Map"), AsU16(Cardinality(DOMAIN map))),
        map, order, 1)

\* impl IntoNoms for HashMap<String, String>
HashMap_into_noms(map, order) == finish(write_map(<<>>, map, order))

\* impl FromNoms for HashMap<String, String>
HashMap_from_noms(v, u) == extract_map(v, 0, u, "String", "String")

-----------------------------------------------------------------------------
(* Inputs *)

StrAlphabet == {97, 120, 195, 169}

SeqsUpTo(S, n) == UNION { [1..k -> S] : k \in 0..n }

\* a Rust String is always well-formed UTF-8
ShortStrings == { s \in SeqsUpTo(StrAlphabet, MaxStrLen) : IsUtf8(s) }

\* strings of line feeds, at and over the widest length a u8 holds
LongStrings == { Rep(255, 10), Rep(256, 10) }

Strings == ShortStrings \cup LongStrings

MapKeys == { <<97>>, <<98>> }
MapVals == { <<120>>, <<121>> }

\* HashMap<String, String> values
Maps == UNION { [D -> MapVals] : D \in SUBSET MapKeys }

\* the orders in which a HashMap holding the keys S may iterate
Orders(S) ==
    { p \in [1..Cardinality(S) -> S] :
        \A i, j \in 1..Cardinality(S) : i # j => p[i] # p[j] }

EMPTY_HASH == Rep(BYTE_LEN, 0)

Hashes == { EMPTY_HASH, Rep(BYTE_LEN, 7) }

U8Inputs == {0, 1, 255}
U16Inputs == {0, 1, 258, 65535}
U32Inputs == { U32Of(0), U32Of(1), U32Of(16909060), << 65535, 65535 >> }

\* the wire form of a Set and of a Map that hold "a" twice
DupSetChunk == << 8, 0, 2, 2, 1, 97, 2, 1, 97 >>
DupMapChunk == << 6, 0, 2, 2, 1, 97, 2, 1, 120, 2, 1, 97, 2, 1, 121 >>

\* the short-read scenario: a String that declares 5 bytes and carries 2
ShortStringChunk == << 2, 5, 97, 98 >>

\* chunks as the transport may deliver them, well-formed or not
Chunks ==
    { << 2, 2, 104, 105 >>,                           \* String "hi"
      << 7 >> \o EMPTY_HASH,                          \* Ref(empty hash)
      << 2, 1, 97 >> \o << 7 >> \o EMPTY_HASH \o << 8, 0, 0 >>,
      << 255, 0, 0 >>,                                \* unknown kind
      ShortStringChunk,
      << 2, 1, 255 >>,                                \* String, not UTF-8
      << 10, 0 >>, << 11 >>, << 12, 1 >>, << 13 >>,   \* Cycle Type Parent Union
      << 8, 0, 0 >>,                                  \* Set {}
      << 8, 0, 1, 2, 1, 97 >>,                        \* Set {"a"}
      << 8, 0, 1, 2, 1, 97, 2, 1, 98, 2, 1, 99 >>,    \* Set {"a"}, then more
      DupSetChunk,
      << 8, 0, 0, 0, 2, 0, 0, 0, 0, 2, 1, 97, 2, 1, 97 >>,
      DupMapChunk,
      << 6, 0, 0, 0, 2, 0, 0, 0, 0,
         2, 1, 97, 2, 1, 120, 2, 1, 97, 2, 1, 121 >>,
      << 9, 1, 80, 1, 1, 120, 2, 1, 97 >>,            \* Struct P { x: "a" }
      << 9, 1, 80, 2, 1, 120, 2, 1, 97, 1, 121 >> \o << 7 >> \o EMPTY_HASH,
      << 9, 1, 80, 1, 1, 120, 9, 1, 81, 0 >>,         \* Struct P { x: Q {} }
      << 9, 1, 80, 1, 1, 120, 8, 0, 0 >>,             \* Struct P { x: Set {} }
      << 0, 1, 0, 0, 0, 0, 0, 1, 2 >> }

-----------------------------------------------------------------------------
(* State *)

\* res: the last operation, its outcome, the cursor before it, its argument
Res(op, st, pre, v, ub, arg) ==
    [op |-> op, st |-> st, pre |-> pre, v |-> v, ub |-> ub, arg |-> arg]

Done(op) == Res(op, "ok", 0, NoVal, FALSE, NoVal)

\* prov: how the current chunk was produced, when this program produced it
Made(op, arg) == [op |-> op, arg |-> arg]

\* pc: "idle" (no chunk, reader or writer yet), "reading" (a chunk and a
\* reader over it), "writing" (a writer)
Init ==
    /\ pc = "idle"
    /\ chunk = <<>>
    /\ offset = 0
    /\ prov = <<>>
    /\ w = <<>>
    /\ wlog = <<>>
    /\ res = Done("new")

-----------------------------------------------------------------------------
(* Chunk *)

\* Chunk::new(data) or Chunk::from_hyper(data), then reader()
NewChunk ==
    \E c \in Chunks :
        /\ pc = "idle"
        /\ pc' = "reading"
        /\ chunk' = c
        /\ offset' = 0
        /\ prov' = <<>>
        /\ w' = <<>>
        /\ wlog' = <<>>
        /\ res' = Done("new")

\* chunk.reader(): a fresh cursor over the same chunk
Reader ==
    /\ pc = "reading"
    /\ res.st = "ok"
    /\ offset' = 0
    /\ res' = Done("reader")
    /\ UNCHANGED <<pc, chunk, prov, w, wlog>>

\* Chunk::writer()
Writer ==
    /\ pc = "idle"
    /\ pc' = "writing"
    /\ chunk' = <<>>
    /\ offset' = 0
    /\ prov' = <<>>
    /\ w' = <<>>
    /\ wlog' = <<>>
    /\ res' = Done("writer")

\* the chunk, its reader and the writer go out of scope, or a panic has
\* unwound them
Drop ==
    /\ pc # "idle"
    /\ pc' = "idle"
    /\ chunk' = <<>>
    /\ offset' = 0
    /\ prov' = <<>>
    /\ w' = <<>>
    /\ wlog' = <<>>
    /\ res' = Done("new")

-----------------------------------------------------------------------------
(* ChunkReader operations on the current reader.  After a panic the reader  *)
(* is gone: a new one is needed.                                            *)

ReaderStep(op, r, arg) ==
    /\ pc = "reading"
    /\ res.st = "ok"
    /\ res' = Res(op, r.st, offset, r.v, r.ub, arg)
    /\ offset' = r.off
    /\ UNCHANGED <<pc, chunk, prov, w, wlog>>

\* An operation that transmutes a byte to a Kind: when the byte is no
\* discriminant the outcome u is any of UBKinds.  When the operation meets
\* no such byte (no ub with "Invalid" standing in) u is never looked at.
UBStep(op, F(_), arg) ==
    \/ ReaderStep(op, F("Invalid"), arg)
    \/ /\ pc = "reading"
       /\ res.st = "ok"
       /\ F("Invalid").ub
       /\ \E u \in KindNames : ReaderStep(op, F(u), arg)

ExtractHash == ReaderStep("extract_hash", extract_hash(chunk, offset), NoVal)

ExtractU8 == ReaderStep("extract_u8", extract_u8(chunk, offset), NoVal)

ExtractU16 == ReaderStep("extract_u16", extract_u16(chunk, offset), NoVal)

ExtractU32 == ReaderStep("extract_u32", extract_u32(chunk, offset), NoVal)

ExtractRaw ==
    \E n \in 0..MaxRaw :
        ReaderStep("extract_raw", extract_raw(chunk, offset, n), n)

ExtractKind ==
    UBStep("extract_kind", LAMBDA u : extract_kind(chunk, offset, u), NoVal)

ExtractRawString ==
    ReaderStep("extract_raw_string", extract_raw_string(chunk, offset), NoVal)

ExtractString ==
    UBStep("extract_string", LAMBDA u : extract_string(chunk, offset, u), NoVal)

ExtractRef ==
    UBStep("extract_ref", LAMBDA u : extract_ref(chunk, offset, u), NoVal)

ExtractChunk ==
    UBStep("extract_chunk", LAMBDA u : extract_chunk(chunk, offset, u), NoVal)

ExtractStruct ==
    UBStep("extract_struct", LAMBDA u : extract_struct(chunk, offset, u), NoVal)

ExtractSet ==
    \E T \in {"String", "Chunk"} :
        UBStep("extract_set", LAMBDA u : extract_set(chunk, offset, u, T), T)

ExtractMap ==
    \E T \in {"String", "Chunk"} :
        UBStep("extract_map", LAMBDA u : extract_map(chunk, offset, u, T, T), T)

Empty ==
    ReaderStep("empty", Ok(offset, empty(chunk, offset), FALSE), NoVal)

-----------------------------------------------------------------------------
(* ChunkWriter operations on the current writer.  The call paths modelled   *)
(* are Chunk::writer().write_x(v).finish(): one value per chunk, as in the  *)
(* conversions.                                                             *)

WriterStep(op, buf, arg) ==
    /\ pc = "writing"
    /\ wlog = <<>>
    /\ w' = buf
    /\ wlog' = Append(wlog, Made(op, arg))
    /\ res' = Done(op)
    /\ UNCHANGED <<pc, chunk, offset, prov>>

WriteBytes ==
    \E b \in { <<>>, << 2, 5, 97, 98 >> } :
        WriterStep("write_bytes", write_bytes(w, b), b)

WriteU8 == \E v \in U8Inputs : WriterStep("write_u8", write_u8(w, v), v)

WriteU16 == \E v \in U16Inputs : WriterStep("write_u16", write_u16(w, v), v)

WriteU32 == \E v \in U32Inputs : WriterStep("write_u32", write_u32(w, v), v)

WriteHash == \E h \in Hashes : WriterStep("write_hash", write_hash(w, h), h)

WriteKind ==
    \E k \in KindNames : WriterStep("write_kind", write_kind(w, k), k)

WriteRef == \E r \in Hashes : WriterStep("write_ref", write_ref(w, r), r)

WriteValue ==
    \E v \in { << 2, 1, 97 >>, << 8, 0, 0 >> } :
        WriterStep("write_value", write_value(w, v), v)

WriteString ==
    \E s \in Strings : WriterStep("write_string", write_string(w, s), s)

WriteMap ==
    \E m \in Maps : \E order \in Orders(DOMAIN m) :
        WriterStep("write_map", write_map(w, m, order), m)

\* finish(), then reader() on the chunk it returns
Finish ==
    /\ pc = "writing"
    /\ pc' = "reading"
    /\ chunk' = finish(w)
    /\ prov' = wlog
    /\ offset' = 0
    /\ w' = <<>>
    /\ wlog' = <<>>
    /\ res' = Done("finish")

-----------------------------------------------------------------------------
(* Conversions *)

Converted(op, c, arg) ==
    /\ pc = "idle"
    /\ pc' = "reading"
    /\ chunk' = c
    /\ prov' = << Made(op, arg) >>
    /\ offset' = 0
    /\ w' = <<>>
    /\ wlog' = <<>>
    /\ res' = Done(op)

StringIntoNoms ==
    \E s \in Strings :
        Converted("String::into_noms", String_into_noms(s), s)

HashMapIntoNoms ==
    \E m \in Maps : \E order \in Orders(DOMAIN m) :
        Converted("HashMap::into_noms", HashMap_into_noms(m, order), m)

\* from_noms reads through a reader of its own: the cursor of the current
\* reader stays where it is
ConvertBack(op, r) ==
    /\ pc = "reading"
    /\ res.st = "ok"
    /\ res' = Res(op, r.st, 0, r.v, r.ub, NoVal)
    /\ UNCHANGED <<pc, chunk, offset, prov, w, wlog>>

UBBack(op, F(_)) ==
    \/ ConvertBack(op, F("Invalid"))
    \/ /\ pc = "reading"
       /\ res.st = "ok"
       /\ F("Invalid").ub
       /\ \E u \in KindNames : ConvertBack(op, F(u))

StringFromNoms ==
    UBBack("String::from_noms", LAMBDA u : String_from_noms(chunk, u))

HashMapFromNoms ==
    UBBack("HashMap::from_noms", LAMBDA u : HashMap_from_noms(chunk, u))

-----------------------------------------------------------------------------

Next ==
    \/ NewChunk \/ Reader \/ Writer \/ Drop
    \/ ExtractHash \/ ExtractU8 \/ ExtractU16 \/ ExtractU32
    \/ ExtractRaw \/ ExtractKind \/ ExtractRawString \/ ExtractString
    \/ ExtractRef \/ ExtractChunk \/ ExtractStruct \/ ExtractSet
    \/ ExtractMap \/ Empty
    \/ WriteBytes \/ WriteU8 \/ WriteU16 \/ WriteU32 \/ WriteHash
    \/ WriteKind \/ WriteRef \/ WriteValue \/ WriteString \/ WriteMap
    \/ Finish
    \/ StringIntoNoms \/ HashMapIntoNoms \/ StringFromNoms
    \/ HashMapFromNoms

Spec == Init /\ [][Next]_vars

-----------------------------------------------------------------------------
(* The wire format of the four sub-values extract_chunk handles            *)
(*   Ref    : Kind::Ref, BYTE_LEN hash bytes                                *)
(*   String : Kind::String, u8 len, len bytes of UTF-8                      *)
(*   Struct : Kind::Struct, u8 name_len, name, u8 field_count,              *)
(*            (u8 key_len, key, sub-value)*                                 *)
(*   Set    : Kind::Set, u16 count, (sub-value)*, no element twice          *)
(* WireEnd(what, b, o, n, seen) is the offset at which the well-formed item *)
(* that begins at o ends, or -1 when no well-formed item begins there.      *)
(* The order of a Set's elements is by a hash the codec does not compute;   *)
(* it is not judged here.                                                   *)

RECURSIVE WireEnd(_, _, _, _, _)
WireEnd(what, b, o, n, seen) ==
    CASE what = "value" ->
        IF o >= Len(b) THEN -1
        ELSE IF b[o + 1] = KindCode("Ref")
             THEN IF o + 1 + BYTE_LEN <= Len(b) THEN o + 1 + BYTE_LEN ELSE -1
        ELSE IF b[o + 1] = KindCode("String")
             THEN IF /\ o + 2 <= Len(b)
                     /\ o + 2 + b[o + 2] <= Len(b)
                     /\ IsUtf8(Slice(b, o + 2, o + 2 + b[o + 2]))
                  THEN o + 2 + b[o + 2] ELSE -1
        ELSE IF b[o + 1] = KindCode("Struct")
             THEN IF /\ o + 2 <= Len(b)
                     /\ o + 3 + b[o + 2] <= Len(b)
                     /\ IsUtf8(Slice(b, o + 2, o + 2 + b[o + 2]))
                  THEN WireEnd("fields", b, o + 3 + b[o + 2],
                               b[o + 3 + b[o + 2]], {})
                  ELSE -1
        ELSE IF b[o + 1] = KindCode("Set")
             THEN IF o + 3 <= Len(b)
                  THEN WireEnd("elements", b, o + 3,
                               b[o + 2] * 256 + b[o + 3], {})
                  ELSE -1
        ELSE -1
    [] what = "fields" ->
        IF n = 0 THEN o
        ELSE IF /\ o + 1 <= Len(b)
                /\ o + 1 + b[o + 1] <= Len(b)
                /\ IsUtf8(Slice(b, o + 1, o + 1 + b[o + 1]))
             THEN LET e == WireEnd("value", b, o + 1 + b[o + 1], 0, {})
                  IN  IF e = -1 THEN -1
                      ELSE WireEnd("fields", b, e, n - 1, {})
             ELSE -1
    [] what = "elements" ->
        IF n = 0 THEN o
        ELSE LET e == WireEnd("value", b, o, 0, {})
             IN  IF e = -1 \/ Slice(b, o, e) \in seen THEN -1
                 ELSE WireEnd("elements", b, e, n - 1,
                              seen \cup {Slice(b, o, e)})

\* the end of the well-formed Ref, String, Struct or Set that begins at o
SubValueEnd(b, o) == WireEnd("value", b, o, 0, {})

-----------------------------------------------------------------------------
(* Properties *)

\* what the current chunk was made from, when one conversion or one write
\* made it
MadeBy(op) == Len(prov) = 1 /\ prov[1].op = op

\* C1: extract_chunk at the start o0 of a well-formed Ref, String, Struct or
\* Set returns exactly bytes[o0 .. o0+L] and leaves the cursor at o0+L, L the
\* encoded length of that sub-value.
C1_ExtractChunkExact ==
    (res.op = "extract_chunk" /\ SubValueEnd(chunk, res.pre) # -1)
        => /\ res.st = "ok"
           /\ res.v = Slice(chunk, res.pre, SubValueEnd(chunk, res.pre))
           /\ offset = SubValueEnd(chunk, res.pre)

\* C2: HashMap::from_noms applied to HashMap::into_noms(m) yields m, for maps
\* of strings of at most 255 bytes.
C2_MapRoundTrip ==
    (res.op = "HashMap::from_noms" /\ MadeBy("HashMap::into_noms"))
        => /\ res.st = "ok"
           /\ res.v = prov[1].arg

\* C3: for a string s of at most 255 bytes String::into_noms(s) is the bytes
\* [Kind::String, len(s), bytes of s], and String::from_noms of it returns s.
C3_StringRoundTrip ==
    (MadeBy("String::into_noms") /\ Len(prov[1].arg) <= 255)
        => /\ chunk = << KindCode("String"), Len(prov[1].arg) >> \o prov[1].arg
           /\ res.op = "String::from_noms"
                => (res.st = "ok" /\ res.v = prov[1].arg)

\* C3 witness: a string of 255 bytes has been encoded and decoded again.
C3_Witness ==
    /\ MadeBy("String::into_noms")
    /\ Len(prov[1].arg) = 255
    /\ res.op = "String::from_noms"
    /\ res.st = "ok"

\* C4: the bytes write_map emits for a map do not depend on the order in
\* which the map's entries are iterated.
C4_CanonicalMap ==
    /\ MadeBy("HashMap::into_noms")
         => \A order \in Orders(DOMAIN prov[1].arg) :
                chunk = HashMap_into_noms(prov[1].arg, order)
    /\ MadeBy("write_map")
         => \A order \in Orders(DOMAIN prov[1].arg) :
                chunk = finish(write_map(<<>>, prov[1].arg, order))

\* C5: extract_u16 reads the 2 bytes at the cursor as a big-endian unsigned
\* integer and advances the cursor by 2; on write_u16(v).finish() it returns
\* v and ends with the cursor at 2.
C5_ExtractU16 ==
    /\ (res.op = "extract_u16" /\ res.pre + 2 <= Len(chunk))
         => /\ res.st = "ok"
            /\ res.v = U32Of(chunk[res.pre + 1] * 256 + chunk[res.pre + 2])
            /\ offset = res.pre + 2
    /\ (res.op = "extract_u16" /\ res.pre = 0 /\ MadeBy("write_u16"))
         => /\ res.st = "ok"
            /\ res.v = U32Of(prov[1].arg)
            /\ offset = 2

\* C6: write_string(s) fails with EncodeTooLong when s is longer than 255
\* bytes, and the length byte it emits is the number of payload bytes.
C6_WriteStringTooLong ==
    (pc = "writing" /\ Len(wlog) = 1 /\ wlog[1].op = "write_string")
        => /\ Len(wlog[1].arg) > 255 => res.st = "EncodeTooLong"
           /\ res.st = "ok" => w[2] = Len(w) - 2

ExtractOps ==
    { "extract_u8", "extract_u16", "extract_u32", "extract_hash",
      "extract_raw", "extract_string", "extract_chunk" }

\* the bytes the wire format gives each fixed-width read
Width(op, arg) ==
    CASE op = "extract_u8" -> 1
      [] op = "extract_u16" -> 2
      [] op = "extract_u32" -> 4
      [] op = "extract_hash" -> BYTE_LEN
      [] op = "extract_raw" -> arg
      [] OTHER -> 1

\* C7: an extract whose advance would pass the end of the chunk, every
\* extract at cursor = len(chunk) included, returns DecodeShortRead.
C7_ShortRead ==
    /\ (res.op \in ExtractOps /\ res.pre + Width(res.op, res.arg) > Len(chunk))
         => res.st = "DecodeShortRead"
    /\ (res.op = "extract_string" /\ res.pre = 0 /\ chunk = ShortStringChunk)
         => res.st = "DecodeShortRead"

ReservedKinds == { "Cycle", "Parent", "Type", "Union" }

\* C8: extract_kind on a byte that is no Kind tag, and extract_chunk on a
\* Cycle, Parent, Type or Union, fail with DecodeUnknownKind; no Kind outside
\* the closed set is produced.
C8_UnknownKind ==
    /\ (res.op = "extract_kind" /\ res.pre < Len(chunk)
            /\ chunk[res.pre + 1] \notin KindCodes)
         => res.st = "DecodeUnknownKind"
    /\ (res.op = "extract_kind" /\ res.st = "ok") => res.v \in KindNames
    /\ (res.op = "extract_chunk" /\ res.pre < Len(chunk)
            /\ chunk[res.pre + 1] \in { KindCode(k) : k \in ReservedKinds })
         => res.st = "DecodeUnknownKind"

\* C9: on a chunk the writer made of one top-level value (write_string,
\* write_ref, write_map), the matching decode on a fresh reader ends with the
\* cursor at len(chunk): empty() is true.
C9_CursorDiscipline ==
    (/\ Len(prov) = 1
     /\ res.pre = 0
     /\ << prov[1].op, res.op >> \in
            { << "write_string", "extract_string" >>,
              << "write_ref", "extract_ref" >>,
              << "write_map", "extract_map" >> })
        => /\ res.st = "ok"
           /\ offset = Len(chunk)
           /\ empty(chunk, offset)

\* C10: extract_set on a Set, and extract_map on a Map, that holds an entry
\* twice fails with DecodeDuplicate; no decode succeeds with fewer entries
\* than the count it read.
C10_Duplicates ==
    /\ (res.op = "extract_set" /\ res.pre = 0 /\ chunk = DupSetChunk)
         => res.st = "DecodeDuplicate"
    /\ (res.op = "extract_map" /\ res.pre = 0 /\ chunk = DupMapChunk)
         => res.st = "DecodeDuplicate"
    /\ (res.op = "extract_set" /\ res.st = "ok")
         => U32Of(Cardinality(res.v)) = read_u32(chunk, res.pre + 1)
    /\ (res.op = "extract_map" /\ res.st = "ok")
         => U32Of(Cardinality(DOMAIN res.v)) = read_u32(chunk, res.pre + 1)

====
